---- MODULE Spec2Model ----
\* A model of the Latte video-diffusion backbone
\* (opensora/models/diffusion/latte/modeling_latte.py).
\*
\* Tensors are modelled by their shapes; the values that the claims speak
\* about (attention-weight rows, the residual stream of the blocks, the
\* elements of the backbone output and of the guided output) are modelled
\* exactly on small integers.  An exception raised by the code is the program
\* counter "error" together with the name of the failing step.
EXTENDS Integers, Sequences, FiniteSets, TLC

\* ------------------------------------------------------------------ bounds
MaxSide == 4
MaxPatch == 2
MaxPatchT == 2
MaxChannels == 2
MaxDepth == 4
MaxFrames == 4
MaxBatch == 2
MaxScale == 2

\* ------------------------------------------------------- program constants
\* `if self.extras == 2` / `if self.extras == 78`
ExtrasLabel == 2
ExtrasText == 78

VARIABLES
    config,      \* the LatteConfiguration handed to Latte.__init__
    backend,     \* which optional attention backends could be imported
    model,       \* the fields Latte.__init__ / initialize_weights set
    pc,          \* position of the program
    call,        \* arguments of the running forward / forward_with_cfg call
    x,           \* the token tensor of the running call
    i,           \* loop index of `for i in range(0, len(self.blocks), 2)`
    trace,       \* the blocks run so far by the running call
    model_out,   \* what Latte.forward returned
    result,      \* what the entry point returned to its caller
    err,         \* the step that raised, "" when none did
    attn,        \* state of one Attention.forward computation
    emb          \* state of one LabelEmbedder.forward computation

vars == <<config, backend, model, pc, call, x, i, trace, model_out, result, err, attn, emb>>

\* ------------------------------------------------------------ arithmetic
Max2(a, b) == IF a >= b THEN a ELSE b
Min2(a, b) == IF a <= b THEN a ELSE b

\* int(n ** 0.5)
ISqrt(n) == CHOOSE r \in 0..n : r * r <= n /\ (r + 1) * (r + 1) > n

\* Size of one axis after broadcasting two tensors; 0 when the sizes do not
\* broadcast (no tensor of the model has an empty axis).
BroadcastDim(a, b) ==
    IF a = b THEN a
    ELSE IF a = 1 THEN b
    ELSE IF b = 1 THEN a
    ELSE 0

\* Whether a tensor with axis size `src` expands to axis size `dst`
\* (Tensor.copy_, the attn_mask argument of scaled_dot_product_attention).
ExpandsTo(src, dst) == src = dst \/ src = 1

\* -------------------------------------------------------------- tensors
NoTensor == [ok |-> FALSE, shape |-> <<>>, val |-> <<>>]

\* index set (b, f, c) of a (B, F, C, H, W) tensor; every operation of the
\* model acts uniformly over the last two axes
Indices(shape) == (0 .. shape[1] - 1) \X (0 .. shape[2] - 1) \X (0 .. shape[3] - 1)

LinearIndex(shape, ix) == (ix[1] * shape[2] + ix[2]) * shape[3] + ix[3]

\* ================================================================ Attention
\* One attention head on N tokens.  A score row is a sequence of integers, a
\* weight is a fraction <<numerator, denominator>> in lowest terms and
\* <<0, 0>> is NaN.
MaxTokens == 2
MaxScore == 1

NaNWeight == <<0, 0>>
ZeroWeight == <<0, 1>>

RECURSIVE Gcd(_, _)
Gcd(a, b) == IF b = 0 THEN a ELSE Gcd(b, a % b)

Fraction(n, d) == IF d = 0 THEN NaNWeight ELSE <<n \div Gcd(n, d), d \div Gcd(n, d)>>

RECURSIVE SumSeq(_)
SumSeq(s) == IF s = <<>> THEN 0 ELSE Head(s) + SumSeq(Tail(s))

RECURSIVE MaxSeq(_)
MaxSeq(s) == IF Len(s) = 1 THEN s[1] ELSE Max2(Head(s), MaxSeq(Tail(s)))

\* exp(d) for d <= 0, in units of exp(-ExpRange): a score that lies a mask
\* bias below the row maximum underflows to 0 (float32 exp underflows below
\* -103), every other distance of the model is within ExpRange.  The base
\* is 2; softmax keeps its order, its shift invariance and its zeros.
ExpRange == 2 * MaxScore * MaxScore + 1
Exp(d) == IF d < -103 THEN 0 ELSE 2 ^ (ExpRange + d)

\* Tensor.softmax(dim=-1) on one row; a NaN score makes the whole row NaN
Softmax(row, isnan) ==
    IF isnan THEN [j \in 1..Len(row) |-> NaNWeight]
    ELSE LET e == [j \in 1..Len(row) |-> Exp(row[j] - MaxSeq(row))]
         IN  [j \in 1..Len(row) |-> Fraction(e[j], SumSeq(e))]

\* Attention.make_attn_bias on one mask entry
make_attn_bias(m, dtype) ==
    LET attn_bias == IF m = 0 THEN (IF dtype = "float32" THEN -100000000 ELSE -10000) ELSE m
    IN  IF m = 1 THEN 0 ELSE attn_bias

\* attn + attn_bias in the tensor's dtype: next to the bias the
\* representable numbers are 8 apart, so a score is absorbed by it
AddBias(s, b) == IF b <= -10000 THEN b ELSE s + b

\* attn.masked_fill(torch.isnan(attn), 0.)
NanToZero(w) == IF w = NaNWeight THEN ZeroWeight ELSE w

\* lines 124-131: the weight row of the 'math' strategy
MathWeights(scores, isnan, hasMask, maskRow, dtype) ==
    LET biased == IF hasMask
                  THEN [j \in 1..Len(scores) |-> AddBias(scores[j], make_attn_bias(maskRow[j], dtype))]
                  ELSE scores
        sm == Softmax(biased, isnan)
    IN  [j \in 1..Len(scores) |-> NanToZero(sm[j])]

\* F.scaled_dot_product_attention: a floating-point attn_mask is added to
\* the scores
SdpaWeights(scores, isnan, hasMask, maskRow) ==
    Softmax(IF hasMask THEN [j \in 1..Len(scores) |-> scores[j] + maskRow[j]] ELSE scores, isnan)

\* the fast path taken whatever the mask holds
FlashFastPathAlways(hasMask, allNonZero) == TRUE

\* line 114: `attn_mask is None or torch.all(attn_mask.bool())`
FlashFastPath(hasMask, allNonZero) == (~hasMask) \/ allNonZero

\* lines 107-133: the weights with which Attention.forward sums the values
AttentionWeights(mode, scores, isnan, hasMask, maskRow, allNonZero, dtype) ==
    CASE mode = "xformers" -> SdpaWeights(scores, isnan, hasMask, maskRow)
      [] mode = "flash" ->
            IF FlashFastPath(hasMask, allNonZero)
            THEN SdpaWeights(scores, isnan, FALSE, maskRow)
            ELSE SdpaWeights(scores, isnan, hasMask, maskRow)
      [] mode = "math" -> MathWeights(scores, isnan, hasMask, maskRow, dtype)
      [] OTHER -> <<>>

\* ==================================================================== Latte
\* learn_sigma is False, True, 2 or 78 (Python's True == 1, False == 0)
SigmaValues == {0, 1, ExtrasLabel, ExtrasText}

AttentionModes == {"math", "flash", "xformers", "rebased", "ring"}

DefaultConfig ==
    [input_size |-> <<2, 2>>, patch_size |-> 1, patch_size_t |-> 1, in_channels |-> 1,
     depth |-> 2, num_frames |-> 2, learn_sigma |-> 0, attention_mode |-> "math"]

\* input sizes whose sides the patch size divides
Geometries ==
    {g \in (1..MaxSide) \X (1..MaxSide) \X (1..MaxPatch) : g[1] % g[3] = 0 /\ g[2] % g[3] = 0}

\* configurations that vary the geometry and the channels
GeometryConfigs ==
    {[DefaultConfig EXCEPT !.input_size = <<g[1], g[2]>>, !.patch_size = g[3],
                           !.patch_size_t = pt, !.in_channels = c, !.learn_sigma = s] :
        g \in Geometries, pt \in 1..MaxPatchT, c \in 1..MaxChannels, s \in {0, 1}}

\* configurations that vary the attention strategy
AttentionConfigs ==
    {[DefaultConfig EXCEPT !.input_size = <<g[1], g[2]>>, !.patch_size = g[3],
                           !.attention_mode = m] :
        g \in Geometries, m \in AttentionModes}

\* configurations that vary the depth and the conditioning
LoopConfigs ==
    {[DefaultConfig EXCEPT !.depth = d, !.num_frames = n, !.in_channels = c, !.learn_sigma = s] :
        d \in 0..MaxDepth, n \in 1..MaxFrames, c \in 1..MaxChannels, s \in SigmaValues}

\* configurations that vary the channels and the frames of a guided call
GuidanceConfigs ==
    {[DefaultConfig EXCEPT !.num_frames = n, !.in_channels = c, !.learn_sigma = s] :
        n \in 1..MaxFrames, c \in 1..MaxChannels, s \in {0, 1}}

Configs == GeometryConfigs \cup AttentionConfigs \cup LoopConfigs \cup GuidanceConfigs

\* the channels doubled by the flag True alone, not by every truthy value
OutChannelsFlagOnly(cfg) == IF cfg.learn_sigma = 1 THEN cfg.in_channels * 2 ELSE cfg.in_channels

\* `self.out_channels = in_channels * 2 if learn_sigma else in_channels`
OutChannels(cfg) == IF cfg.learn_sigma # 0 THEN cfg.in_channels * 2 ELSE cfg.in_channels

\* PatchEmbed.num_patches (timm): the product of the grid sides
NumPatches(cfg) ==
    (cfg.input_size[1] \div cfg.patch_size) * (cfg.input_size[2] \div cfg.patch_size)

\* get_2d_sincos_pos_embed(embed_dim, grid_size): grid_size * grid_size rows
get_2d_sincos_pos_embed(grid_size) == grid_size * grid_size

\* get_1d_sincos_temp_embed(embed_dim, length): length rows
get_1d_sincos_temp_embed(length) == length

\* lines 482-501: block i is built for the spatial grid when i is even and
\* for the frame axis when i is odd
Blocks(cfg) ==
    [b \in 1..cfg.depth |->
        IF (b - 1) % 2 = 0
        THEN [hw |-> <<cfg.input_size[1] \div cfg.patch_size, cfg.input_size[2] \div cfg.patch_size>>]
        ELSE [hw |-> <<cfg.num_frames, 1>>]]

\* the zeros initialize_weights writes (lines 535-544)
InitGate == 0
InitFinalWeight == 0
InitFinalBias == 0

NoModel ==
    [built |-> FALSE, fresh |-> FALSE, in_channels |-> 0, out_channels |-> 0, extras |-> 0,
     num_patches |-> 0, pos_embed |-> 0, temp_embed |-> 0, blocks |-> <<>>,
     gate |-> 0, final_weight |-> 0, final_bias |-> 0,
     y_embedder |-> FALSE, text_embedding_projection |-> FALSE]

\* initialize_weights without the zeroing of lines 535-544: the gates and the
\* final projection keep the weights of _basic_init
NewModelNotZeroed(cfg) ==
    [built |-> TRUE, fresh |-> TRUE,
     in_channels |-> cfg.in_channels,
     out_channels |-> OutChannels(cfg),
     extras |-> cfg.learn_sigma,
     num_patches |-> NumPatches(cfg),
     pos_embed |-> NumPatches(cfg),
     temp_embed |-> cfg.num_frames,
     blocks |-> Blocks(cfg),
     gate |-> 1, final_weight |-> 1, final_bias |-> InitFinalBias,
     y_embedder |-> cfg.learn_sigma = ExtrasLabel,
     text_embedding_projection |-> cfg.learn_sigma = ExtrasText]

\* Latte.__init__ with initialize_weights; pos_embed and temp_embed are the
\* row counts of the two tables
NewModel(cfg) ==
    [built |-> TRUE, fresh |-> TRUE,
     in_channels |-> cfg.in_channels,
     out_channels |-> OutChannels(cfg),
     extras |-> cfg.learn_sigma,
     num_patches |-> NumPatches(cfg),
     pos_embed |-> NumPatches(cfg),
     temp_embed |-> cfg.num_frames,
     blocks |-> Blocks(cfg),
     gate |-> InitGate, final_weight |-> InitFinalWeight, final_bias |-> InitFinalBias,
     \* lines 463-470: the embedders built for the value of extras
     y_embedder |-> cfg.learn_sigma = ExtrasLabel,
     text_embedding_projection |-> cfg.learn_sigma = ExtrasText]

\* lines 516-517: the generated table is copied into pos_embed, which raises
\* unless the generated rows expand to the rows of pos_embed
PosEmbedCopyOk(cfg) ==
    ExpandsTo(get_2d_sincos_pos_embed(ISqrt(NumPatches(cfg))), NumPatches(cfg))

NoCall ==
    [entry |-> "", batch |-> 0, frames |-> 0, mask |-> "none", cond |-> "none", cfg_scale |-> 0]

\* pos and temp: the points of the call (the number of blocks already run)
\* at which pos_embed and temp_embed were added to the residual stream
NoX ==
    [rows |-> 0, len |-> 0, layout |-> "", terms |-> <<>>, ref |-> <<>>, width |-> 0,
     pos |-> <<>>, temp |-> <<>>]

Idle == [pc |-> "idle"]

\* Latte(config): __init__ and initialize_weights
Construct ==
    /\ pc = "config"
    /\ IF PosEmbedCopyOk(config)
       THEN /\ model' = NewModel(config)
            /\ pc' = "ready"
            /\ err' = ""
       ELSE /\ model' = NoModel
            /\ pc' = "ctor_error"
            /\ err' = "pos_embed.copy_"
    /\ UNCHANGED <<config, backend, call, x, i, trace, model_out, result, attn, emb>>

\* The learned weights are parameters of the module: an optimizer step or a
\* loaded checkpoint overwrites them between two calls.  A weight is zero or
\* it is not.
LoadWeights ==
    /\ pc = "ready"
    /\ \E g \in {0, 1}, w \in {0, 1}, b \in {0, 1} :
          model' = [model EXCEPT !.fresh = FALSE, !.gate = g,
                                 !.final_weight = w, !.final_bias = b]
    /\ UNCHANGED <<config, backend, pc, call, x, i, trace, model_out, result, err, attn, emb>>

\* ------------------------------------------------------------ the calls
\* mask: the attention_mask argument ("none", all ones, or with zeros);
\* cond: which conditioning argument the caller passes (y, text_embedding)
CallsFor(cfg) ==
    {c \in [entry : {"forward", "forward_with_cfg"}, batch : 1..MaxBatch, frames : 1..MaxFrames,
            mask : {"none", "ones", "mixed"}, cond : {"none", "label", "text"},
            cfg_scale : 0..MaxScale] :
        /\ c.entry = "forward" => c.cfg_scale = 0
        /\ c.entry = "forward_with_cfg" => (c.batch % 2 = 0 /\ cfg \in GeometryConfigs \cup GuidanceConfigs)
        /\ c.mask # "none" => (cfg \in AttentionConfigs /\ c.entry = "forward")
        /\ c.cond # "none" => (cfg \in LoopConfigs /\ c.entry = "forward")}

\* lines 662-663: `combined = torch.cat([half, half])`, half = x[: len(x) // 2]
ForwardBatch(c) == IF c.entry = "forward_with_cfg" THEN 2 * (c.batch \div 2) ELSE c.batch

\* lines 588-594 with make_mask: the pairwise masks are
\* (batch, 1, len, len) tensors
SpatialMask(c, cfg) ==
    [has |-> c.mask # "none", kind |-> c.mask,
     batch |-> ForwardBatch(c) * c.frames,
     len |-> cfg.input_size[1] * cfg.input_size[2]]

TemporalMask(c, cfg) ==
    [has |-> c.mask # "none", kind |-> c.mask,
     batch |-> ForwardBatch(c) * cfg.input_size[1] * cfg.input_size[2],
     len |-> c.frames]

\* lines 618-623 and 634-639: what the conditioning vector of a block sums
BlockCond(extras) ==
    IF extras = ExtrasLabel THEN {"t", "y"}
    ELSE IF extras = ExtrasText THEN {"t", "text"}
    ELSE {"t"}

\* lines 647-650: what the conditioning vector of the final layer sums
FinalCond(extras) == IF extras = ExtrasLabel THEN {"t", "y"} ELSE {"t"}

\* Attention.forward on a (B, N, C) tensor: whether the shapes fit
AttentionShapeOk(mode, B, N, mask, bk) ==
    CASE mode = "xformers" ->
            mask.has => (ExpandsTo(mask.batch, B) /\ ExpandsTo(mask.len, N))
      [] mode = "flash" ->
            FlashFastPath(mask.has, mask.kind = "ones")
                \/ (ExpandsTo(mask.batch, B) /\ ExpandsTo(mask.len, N))
      [] mode = "math" ->
            IF ~mask.has THEN TRUE
            ELSE LET Ba == BroadcastDim(B, mask.batch)     \* attn + attn_bias
                     Na == BroadcastDim(N, mask.len)
                 IN  /\ Ba # 0 /\ Na # 0
                     /\ Na = N                             \* attn @ v
                     /\ BroadcastDim(Ba, B) # 0
                     /\ BroadcastDim(Ba, B) * Na = B * N   \* .reshape(B, N, C)
      [] mode = "rebased" -> bk.rebased                    \* parallel_rebased is a name
      [] mode = "ring" -> bk.ring                          \* ring_flash_attn_cuda is a name
      [] OTHER -> FALSE

\* the scores of one query of the running call and the mask row it meets
QueryScores == <<0, 1>>
MaskRow(kind) == IF kind = "mixed" THEN <<1, 0>> ELSE <<1, 1>>

BlockWeights(mode, mask) ==
    AttentionWeights(mode, QueryScores, FALSE, mask.has, MaskRow(mask.kind),
                     mask.kind = "ones", "float32")

\* TransformerBlock.forward: x + gate * attn(...) and x + gate * mlp(...);
\* the residual stream is the formal sum of the terms added to it, a term
\* with a zero gate adds nothing
BlockTerms(blk, gate, w) ==
    IF gate = 0 THEN <<>>
    ELSE <<[blk |-> blk, part |-> "attn", w |-> w], [blk |-> blk, part |-> "mlp", w |-> <<>>]>>

\* TransformerBlock.forward: rows of the result, 0 when a step raises.
\* modulate, the gate product and the residual sum broadcast the rows of x
\* against the rows of c.
BlockRows(rows, len, crows, mode, mask, bk) ==
    LET m == BroadcastDim(rows, crows)                      \* modulate(norm1(x), ...)
    IN  IF m = 0 THEN 0
        ELSE IF ~AttentionShapeOk(mode, m, len, mask, bk) THEN 0
        ELSE BroadcastDim(rows, BroadcastDim(crows, m))     \* x + gate * attn

NoMask == [has |-> FALSE, kind |-> "none", batch |-> 0, len |-> 0]

\* Latte.forward, lines 588-596
EnterForward(c) ==
    /\ call' = c
    /\ pc' = "embed"
    /\ x' = NoX
    /\ i' = 0
    /\ trace' = <<>>
    /\ model_out' = NoTensor
    /\ result' = NoTensor
    /\ err' = ""
    /\ UNCHANGED <<config, backend, model, attn, emb>>

CallForward ==
    /\ pc = "ready"
    /\ \E c \in CallsFor(config) : c.entry = "forward" /\ EnterForward(c)

\* Latte.forward_with_cfg, lines 662-664
CallForwardWithCfg ==
    /\ pc = "ready"
    /\ \E c \in CallsFor(config) : c.entry = "forward_with_cfg" /\ EnterForward(c)

Raise(step) ==
    /\ pc' = "error"
    /\ err' = step
    /\ UNCHANGED <<config, backend, model, call, x, i, trace, model_out, result, attn, emb>>

\* lines 598-614: patch embedding, positional table, conditioning
PatchEmbedStep ==
    /\ pc = "embed"
    /\ IF model.extras = ExtrasLabel /\ call.cond # "label" THEN Raise("y_embedder")
       ELSE IF model.extras = ExtrasText /\ call.cond # "text" THEN Raise("text_embedding.reshape")
       ELSE IF BroadcastDim(NumPatches(config), model.pos_embed) = 0 THEN Raise("pos_embed")
       ELSE /\ x' = [rows |-> ForwardBatch(call) * call.frames,
                     len |-> BroadcastDim(NumPatches(config), model.pos_embed),
                     layout |-> "bf", terms |-> <<>>, ref |-> <<>>, width |-> 0,
                     pos |-> <<Len(trace)>>,            \* x = self.x_embedder(x) + self.pos_embed
                     temp |-> <<>>]
            /\ pc' = "loop"
            /\ i' = 0
            /\ UNCHANGED <<config, backend, model, call, trace, model_out, result, err, attn, emb>>

\* the loop advancing by one block instead of one pair
LoopStepByOne(k) == k + 1

\* `for i in range(0, len(self.blocks), 2)`
LoopStep(k) == k + 2

\* line 629, rearrange '(b f) t d -> (b t) f d': frame-as-batch to
\* location-as-batch
ToTemporal(layout) == IF layout = "bf" THEN "bt" ELSE "invalid"

\* line 645, rearrange '(b t) f d -> (b f) t d'
ToSpatial(layout) == IF layout = "bt" THEN "bf" ELSE "invalid"

\* einops repeat 'n d -> (c n) d': the c copies of the whole batch laid one
\* after the other
RepeatSourceTiled(r, n, c) == r % n

\* einops repeat 'n d -> (n c) d' on a tensor of n rows: the row of the input
\* that row r of the result copies
RepeatSource(r, n, c) == r \div c

\* modulate and the gate product on `rows` rows of x with a conditioning of
\* n * c rows: the batch element whose conditioning each row of x receives
\* (a conditioning of one row is broadcast to every row)
CondSource(rows, n, c) ==
    [r \in 0..(rows - 1) |-> RepeatSource(IF n * c = 1 THEN 0 ELSE r, n, c)]

\* the temporal table added in every pair of the loop
AddsTempEmbedEveryPair(k) == TRUE

\* `if i == 0:` guarding `x = x + self.temp_embed`
AddsTempEmbed(k) == k = 0

\* lines 616-627: the spatial block of the pair
SpatialBlock ==
    /\ pc = "loop"
    /\ i < Len(model.blocks)
    /\ LET crows == call.batch * model.temp_embed       \* timestep_spatial
           mask == SpatialMask(call, config)
           rows == BlockRows(x.rows, x.len, crows, config.attention_mode, mask, backend)
       IN  IF Len(model.blocks) - i < 2 THEN Raise("unpack blocks[i:i+2]")
           ELSE IF rows = 0 THEN Raise("spatial_block")
           ELSE /\ x' = [x EXCEPT !.rows = rows,
                            !.terms = @ \o BlockTerms(i, model.gate,
                                          BlockWeights(config.attention_mode, mask)),
                            !.ref = @ \o BlockTerms(i, model.gate,
                                          BlockWeights(config.attention_mode, NoMask))]
                /\ trace' = Append(trace, [blk |-> i, layout |-> x.layout,
                                           mask |-> "spatial", cond |-> BlockCond(model.extras),
                                           crows |-> crows, gate |-> model.gate,
                                           src |-> CondSource(BroadcastDim(x.rows, crows),
                                                              call.batch, model.temp_embed)])
                /\ pc' = "temporal"
                /\ UNCHANGED <<config, backend, model, call, i, model_out, result, err, attn, emb>>

\* lines 629-645: the temporal block of the pair
TemporalBlock ==
    /\ pc = "temporal"
    /\ LET b == ForwardBatch(call)
           crows == call.batch * model.pos_embed        \* timestep_temp
           mask == TemporalMask(call, config)
           \* rearrange '(b f) t d -> (b t) f d'
           f == x.rows \div b
           trows == b * x.len
           \* `if i == 0: x = x + self.temp_embed`
           tlen == IF AddsTempEmbed(i) THEN BroadcastDim(f, model.temp_embed) ELSE f
           rows == BlockRows(trows, tlen, crows, config.attention_mode, mask, backend)
       IN  IF x.rows % b # 0 THEN Raise("rearrange")
           ELSE IF tlen = 0 THEN Raise("temp_embed")
           ELSE IF rows = 0 THEN Raise("temp_block")
           ELSE IF rows % b # 0 THEN Raise("rearrange")
           ELSE /\ x' = [x EXCEPT !.rows = b * tlen,      \* '(b t) f d -> (b f) t d'
                            !.len = rows \div b,
                            !.layout = ToSpatial(ToTemporal(x.layout)),
                            !.temp = IF AddsTempEmbed(i) THEN Append(@, Len(trace)) ELSE @,
                            !.terms = @ \o BlockTerms(i + 1, model.gate,
                                          BlockWeights(config.attention_mode, mask)),
                            !.ref = @ \o BlockTerms(i + 1, model.gate,
                                          BlockWeights(config.attention_mode, NoMask))]
                /\ trace' = Append(trace, [blk |-> i + 1, layout |-> ToTemporal(x.layout),
                                           mask |-> "temporal", cond |-> BlockCond(model.extras),
                                           crows |-> crows, gate |-> model.gate,
                                           src |-> CondSource(BroadcastDim(trows, crows),
                                                              call.batch, model.pos_embed)])
                /\ i' = LoopStep(i)
                /\ pc' = "loop"
                /\ UNCHANGED <<config, backend, model, call, model_out, result, err, attn, emb>>

\* FinalLayer.__init__, line 407: the width of the projection
FinalWidth(cfg) == cfg.patch_size_t * cfg.patch_size * cfg.patch_size * OutChannels(cfg)

\* lines 647-651: the final layer
FinalLayerStep ==
    /\ pc = "loop"
    /\ i >= Len(model.blocks)
    /\ LET crows == call.batch * model.temp_embed       \* timestep_spatial
           rows == BroadcastDim(x.rows, crows)          \* modulate(norm_final(x), ...)
       IN  IF rows = 0 THEN Raise("final_layer")
           ELSE /\ x' = [x EXCEPT !.rows = rows, !.width = FinalWidth(config)]
                /\ trace' = Append(trace, [blk |-> Len(model.blocks), layout |-> x.layout,
                                           mask |-> "final", cond |-> FinalCond(model.extras),
                                           crows |-> crows, gate |-> 0,
                                           src |-> CondSource(rows, call.batch,
                                                              model.temp_embed)])
                /\ pc' = "unpatchify"
                /\ UNCHANGED <<config, backend, model, call, i, model_out, result, err, attn, emb>>

\* Latte.unpatchify on (N, T, width): the shape of imgs, <<>> when it raises
unpatchify(rows, len, width, c, p) ==
    LET h == ISqrt(len)
        w == ISqrt(len)
    IN  IF h * w # len THEN <<>>                                   \* assert h * w == x.shape[1]
        ELSE IF rows * len * width # rows * h * w * p * p * c THEN <<>>   \* x.reshape(...)
        ELSE <<rows, c, h * p, h * p>>

\* the value the final projection gives the element at an index: a hidden
\* activation that differs from index to index, times the weight, plus the
\* bias
OutputValue(m, shape, ix, terms) ==
    m.final_bias + m.final_weight * (1 + LinearIndex(shape, ix) + Len(terms))

\* lines 652-655: unpatchify and '(b f) c h w -> b f c h w'
UnpatchifyStep ==
    /\ pc = "unpatchify"
    /\ LET b == ForwardBatch(call)
           imgs == unpatchify(x.rows, x.len, x.width, model.out_channels, config.patch_size)
           shape == <<b, imgs[1] \div b, imgs[2], imgs[3], imgs[4]>>
       IN  IF imgs = <<>> THEN Raise("unpatchify")
           ELSE IF imgs[1] % b # 0 THEN Raise("rearrange")
           ELSE /\ model_out' = [ok |-> TRUE, shape |-> shape,
                                 val |-> [ix \in Indices(shape) |->
                                             OutputValue(model, shape, ix, x.terms)]]
                /\ IF call.entry = "forward"
                   THEN /\ result' = model_out'
                        /\ pc' = "done"
                   ELSE /\ result' = result
                        /\ pc' = "guidance"
                /\ UNCHANGED <<config, backend, model, call, x, i, trace, err, attn, emb>>

\* the operands of the extrapolation exchanged
GuideSwapped(cond_eps, uncond_eps, cfg_scale) == cond_eps + cfg_scale * (uncond_eps - cond_eps)

\* line 672
Guide(cond_eps, uncond_eps, cfg_scale) == uncond_eps + cfg_scale * (cond_eps - uncond_eps)

\* lines 668-674 on model_out of shape (B, F, C, H, W); <<>> when it raises
GuidedShape(shape, in_channels) ==
    LET eps_frames == Min2(in_channels, shape[2])          \* model_out[:, :in_channels]
        rest_frames == shape[2] - eps_frames               \* model_out[:, in_channels:]
        chunk == shape[1] \div 2                           \* len(eps) // 2
    IN  IF chunk = 0 THEN <<>>                             \* torch.split
        ELSE IF (shape[1] + chunk - 1) \div chunk # 2 THEN <<>>   \* cond_eps, uncond_eps = ...
        ELSE IF eps_frames # rest_frames THEN <<>>         \* torch.cat([eps, rest], dim=2)
        ELSE <<2 * chunk, eps_frames, 2 * shape[3], shape[4], shape[5]>>

GuidedValue(out, in_channels, cfg_scale, ix) ==
    LET chunk == out.shape[1] \div 2
        C == out.shape[3]
        eps_frames == Min2(in_channels, out.shape[2])
    IN  IF ix[3] < C
        THEN Guide(out.val[<<ix[1] % chunk, ix[2], ix[3]>>],
                   out.val[<<chunk + (ix[1] % chunk), ix[2], ix[3]>>], cfg_scale)
        ELSE out.val[<<ix[1], eps_frames + ix[2], ix[3] - C>>]

\* lines 668-674: classifier-free guidance on the output of forward
GuidanceStep ==
    /\ pc = "guidance"
    /\ LET shape == GuidedShape(model_out.shape, model.in_channels)
       IN  IF shape = <<>> THEN Raise("guidance")
           ELSE /\ result' = [ok |-> TRUE, shape |-> shape,
                              val |-> [ix \in Indices(shape) |->
                                          GuidedValue(model_out, model.in_channels,
                                                      call.cfg_scale, ix)]]
                /\ pc' = "done"
                /\ UNCHANGED <<config, backend, model, call, x, i, trace, model_out, err, attn, emb>>

\* the entry point returns, or its exception reaches the caller
Return ==
    /\ pc \in {"done", "error"}
    /\ pc' = "ready"
    /\ call' = NoCall
    /\ x' = NoX
    /\ i' = 0
    /\ trace' = <<>>
    /\ model_out' = NoTensor
    /\ result' = NoTensor
    /\ err' = ""
    /\ UNCHANGED <<config, backend, model, attn, emb>>

\* lines 24-34: the flags of the optional backends; a flag matters only to
\* the strategy that needs the backend
Backends(cfg) ==
    {bk \in [rebased : BOOLEAN, ring : BOOLEAN] :
        /\ cfg.attention_mode # "rebased" => ~bk.rebased
        /\ cfg.attention_mode # "ring" => ~bk.ring}

Init ==
    /\ config \in Configs
    /\ backend \in Backends(config)
    /\ model = NoModel
    /\ pc = "config"
    /\ call = NoCall
    /\ x = NoX
    /\ i = 0
    /\ trace = <<>>
    /\ model_out = NoTensor
    /\ result = NoTensor
    /\ err = ""
    /\ attn = Idle
    /\ emb = Idle

Next ==
    \/ Construct
    \/ LoadWeights
    \/ CallForward
    \/ CallForwardWithCfg
    \/ PatchEmbedStep
    \/ SpatialBlock
    \/ TemporalBlock
    \/ FinalLayerStep
    \/ UnpatchifyStep
    \/ GuidanceStep
    \/ Return

Spec == Init /\ [][Next]_vars

\* ======================================================= Attention.forward
\* One call of Attention.forward on one head of N tokens: q and k are one
\* number per token (the queries carry the sign of the scores), query 1 is
\* NaN when `nanq`, and the pairwise mask is the one Latte.make_mask derives
\* from a 0/1 vector.
Tokens(n) == 1..n

\* Latte.make_mask: the outer product of the flattened mask with itself
make_mask(v) == [a \in DOMAIN v |-> [b \in DOMAIN v |-> v[a] * v[b]]]

\* `torch.all(attn_mask.bool())`
AllNonZero(mask) == \A a \in DOMAIN mask : \A b \in DOMAIN mask[a] : mask[a][b] # 0

AttentionInputs ==
    UNION {[pc : {"start"}, mode : {"math", "flash", "xformers"},
            dtype : {"float32", "float16"}, n : {n},
            q : [Tokens(n) -> -MaxScore..MaxScore], k : [Tokens(n) -> 0..MaxScore],
            nanq : BOOLEAN, hasMask : BOOLEAN, valid : [Tokens(n) -> {0, 1}],
            mask : {<<>>}, scores : {<<>>}, weights : {<<>>}, path : {""},
            passed : {<<>>}] :
           n \in 1..MaxTokens}

InitAttention ==
    /\ attn \in {a \in AttentionInputs : ~a.hasMask => \A t \in Tokens(a.n) : a.valid[t] = 1}
    /\ config = DefaultConfig
    /\ backend = [rebased |-> FALSE, ring |-> FALSE]
    /\ model = NoModel
    /\ pc = "idle"
    /\ call = NoCall
    /\ x = NoX
    /\ i = 0
    /\ trace = <<>>
    /\ model_out = NoTensor
    /\ result = NoTensor
    /\ err = ""
    /\ emb = Idle

AttnFrame == UNCHANGED <<config, backend, model, pc, call, x, i, trace, model_out, result, err, emb>>

\* lines 92-96: q, k, v and the mask repeated over the heads
AttnProject ==
    /\ attn.pc = "start"
    /\ attn' = [attn EXCEPT !.pc = "dispatch",
                            !.scores = [a \in Tokens(attn.n) |->
                                           [b \in Tokens(attn.n) |-> attn.q[a] * attn.k[b]]],
                            !.mask = IF attn.hasMask THEN make_mask(attn.valid) ELSE <<>>]
    /\ AttnFrame

RowIsNaN(a) == attn.nanq /\ a = 1

MaskRowOf(a) == IF attn.hasMask THEN attn.mask[a] ELSE [b \in Tokens(attn.n) |-> 1]

\* lines 123-132: the dense strategy
AttnMath ==
    /\ attn.pc = "dispatch"
    /\ attn.mode = "math"
    /\ attn' = [attn EXCEPT !.pc = "weights", !.path = "math",
                            !.weights = [a \in Tokens(attn.n) |->
                                MathWeights(attn.scores[a], RowIsNaN(a), attn.hasMask,
                                            MaskRowOf(a), attn.dtype)]]
    /\ AttnFrame

\* lines 112-121: the flash strategy and its masked fallback
AttnFlash ==
    /\ attn.pc = "dispatch"
    /\ attn.mode = "flash"
    /\ LET fast == FlashFastPath(attn.hasMask, AllNonZero(attn.mask))
           \* the attn_mask argument of scaled_dot_product_attention
           passed == IF fast THEN <<>> ELSE attn.mask
       IN  attn' = [attn EXCEPT !.pc = "weights",
                                !.path = IF fast THEN "flash" ELSE "masked",
                                !.passed = passed,
                                !.weights = [a \in Tokens(attn.n) |->
                                    SdpaWeights(attn.scores[a], RowIsNaN(a),
                                                passed # <<>>, MaskRowOf(a))]]
    /\ AttnFrame

\* lines 107-110: the memory-efficient strategy
AttnXformers ==
    /\ attn.pc = "dispatch"
    /\ attn.mode = "xformers"
    /\ attn' = [attn EXCEPT !.pc = "weights", !.path = "masked",
                            !.passed = attn.mask,
                            !.weights = [a \in Tokens(attn.n) |->
                                SdpaWeights(attn.scores[a], RowIsNaN(a), attn.hasMask,
                                            MaskRowOf(a))]]
    /\ AttnFrame

\* lines 133 and 144-146: the weighted sum and the output projection
AttnOutput ==
    /\ attn.pc = "weights"
    /\ attn' = [attn EXCEPT !.pc = "done"]
    /\ AttnFrame

NextAttention == AttnProject \/ AttnMath \/ AttnFlash \/ AttnXformers \/ AttnOutput

SpecAttention == InitAttention /\ [][NextAttention]_vars

\* ==================================================== LabelEmbedder.forward
\* dropout_prob is a multiple of 1 / RandRes, given by its numerator, and a
\* draw of torch.rand, uniform on [0, 1), is one of 0 .. RandRes - 1 over
\* RandRes.
MaxClasses == 2
MaxLabels == 2
RandRes == 2

LabelInputs ==
    UNION {[pc : {"new"}, num_classes : {nc}, dropout_prob : 0..RandRes, table : {0},
            labels : [1..n -> 0..(nc - 1)], train : BOOLEAN, forced : BOOLEAN,
            force_drop_ids : [1..n -> {0, 1}], given : {<<>>}, rows : {<<>>}] :
           nc \in 1..MaxClasses, n \in 1..MaxLabels}

InitLabel ==
    /\ emb \in {e \in LabelInputs :
                   ~e.forced => \A j \in DOMAIN e.labels : e.force_drop_ids[j] = 0}
    /\ config = DefaultConfig
    /\ backend = [rebased |-> FALSE, ring |-> FALSE]
    /\ model = NoModel
    /\ pc = "idle"
    /\ call = NoCall
    /\ x = NoX
    /\ i = 0
    /\ trace = <<>>
    /\ model_out = NoTensor
    /\ result = NoTensor
    /\ err = ""
    /\ attn = Idle

LabelFrame == UNCHANGED <<config, backend, model, pc, call, x, i, trace, model_out, result, err, attn>>

\* LabelEmbedder.__init__: `nn.Embedding(num_classes + use_cfg_embedding, ...)`
TableSize(num_classes, dropout_prob) == num_classes + (IF dropout_prob > 0 THEN 1 ELSE 0)

LabelConstruct ==
    /\ emb.pc = "new"
    /\ emb' = [emb EXCEPT !.pc = "ready", !.table = TableSize(emb.num_classes, emb.dropout_prob)]
    /\ LabelFrame

\* token_drop keeping the labels whose draw is below dropout_prob
token_drop_inverted(labels, forced, force_drop_ids, rand, dropout_prob, num_classes) ==
    LET drop_ids == [j \in DOMAIN labels |->
                        IF ~forced THEN rand[j] > dropout_prob ELSE force_drop_ids[j] = 1]
    IN  [j \in DOMAIN labels |-> IF drop_ids[j] THEN num_classes ELSE labels[j]]

\* LabelEmbedder.token_drop with the draws `rand` of torch.rand
token_drop(labels, forced, force_drop_ids, rand, dropout_prob, num_classes) ==
    LET drop_ids == [j \in DOMAIN labels |->
                        IF ~forced THEN rand[j] < dropout_prob ELSE force_drop_ids[j] = 1]
    IN  [j \in DOMAIN labels |-> IF drop_ids[j] THEN num_classes ELSE labels[j]]

\* line 366: whether forward drops labels
DropsLabels(train, dropout_prob, forced) == (train /\ dropout_prob > 0) \/ forced

\* LabelEmbedder.forward, lines 365-367
LabelForward ==
    /\ emb.pc = "ready"
    /\ \E rand \in [DOMAIN emb.labels -> 0..(RandRes - 1)] :
          emb' = [emb EXCEPT !.pc = "lookup", !.given = emb.labels,
                             !.labels = IF DropsLabels(emb.train, emb.dropout_prob, emb.forced)
                                        THEN token_drop(emb.labels, emb.forced, emb.force_drop_ids,
                                                        rand, emb.dropout_prob, emb.num_classes)
                                        ELSE emb.labels]
    /\ LabelFrame

\* line 368: `self.embedding_table(labels)`; row r of the table is r, an
\* index outside the table raises
LabelLookup ==
    /\ emb.pc = "lookup"
    /\ IF \A j \in DOMAIN emb.labels : emb.labels[j] < emb.table
       THEN emb' = [emb EXCEPT !.pc = "done", !.rows = emb.labels]
       ELSE emb' = [emb EXCEPT !.pc = "error"]
    /\ LabelFrame

NextLabel == LabelConstruct \/ LabelForward \/ LabelLookup

SpecLabel == InitLabel /\ [][NextLabel]_vars

\* =================================================================== claims
ForwardEnded == pc \in {"done", "error"} /\ call.entry = "forward"
GuidedEnded == pc \in {"done", "error"} /\ call.entry = "forward_with_cfg"

\* the (B, F, C, H, W) input of the running call
InputShape ==
    <<call.batch, call.frames, config.in_channels, config.input_size[1], config.input_size[2]>>

\* C1: whenever the patch size divides height and width and the temporal
\* patch size divides the frame count, Latte.forward on a (B, F, C, H, W)
\* input returns a (B, F, C_out, H, W) tensor, C_out = in_channels * 2 with
\* variance prediction and in_channels without.
C1_ForwardShape ==
    (/\ ForwardEnded
     /\ config \in GeometryConfigs
     /\ call.frames = config.num_frames
     /\ call.frames % config.patch_size_t = 0
     /\ call.mask = "none")
    => (/\ pc = "done"
        /\ result.shape = <<call.batch, call.frames, OutChannels(config),
                            config.input_size[1], config.input_size[2]>>)

\* C2: for every input with even B that Latte.forward accepts,
\* forward_with_cfg returns a tensor of the shape of the input.
C2_GuidedShape ==
    (GuidedEnded /\ call.batch % 2 = 0 /\ model_out.ok)
    => (pc = "done" /\ result.shape = InputShape)

\* C3: in the tensor forward_with_cfg returns, the channels from in_channels
\* on of every frame of the backbone output (the pass-through slice) appear
\* unchanged at the same positions; only the first in_channels channels are
\* guided.
C3_PassThrough ==
    (pc = "done" /\ call.entry = "forward_with_cfg")
    => \A ix \in Indices(model_out.shape) :
          ix[3] >= model.in_channels
          => (ix \in DOMAIN result.val /\ result.val[ix] = model_out.val[ix])

C5_FreshOutputZero ==
    (model.fresh /\ pc = "done" /\ call.entry = "forward")
    => (/\ \A ix \in Indices(result.shape) : result.val[ix] = 0
        /\ x.terms = <<>>
        /\ \A k \in 1..Len(trace) : trace[k].gate = 0
        /\ model.final_weight = 0 /\ model.final_bias = 0)

\* a freshly built class-conditioned model returned from forward
C5_Witness ==
    /\ model.fresh /\ pc = "done" /\ call.entry = "forward"
    /\ model.extras = ExtrasLabel /\ call.cond = "label"
    /\ Len(trace) = 5

\* C6: with an all-ones attention_mask of shape (batch, frame, height,
\* width) Latte.forward completes and returns what it returns without a
\* mask, for the strategies 'math', 'flash' and 'xformers' and every patch
\* size.
C6_OnesMaskNoOp ==
    (/\ ForwardEnded
     /\ call.mask = "ones"
     /\ config.attention_mode \in {"math", "flash", "xformers"}
     /\ config.input_size[1] = config.input_size[2]
     /\ call.frames = config.num_frames)
    => (pc = "done" /\ x.terms = x.ref)

\* C8: a model whose strategy needs a backend that is not installed is never
\* built, so no forward call runs with one.
C8_FailFast ==
    (\/ config.attention_mode = "rebased" /\ ~backend.rebased
     \/ config.attention_mode = "ring" /\ ~backend.ring)
    => (~model.built /\ pc \in {"config", "ctor_error"})

\* C10: for an even depth one call of Latte.forward runs the blocks
\* 0..depth-1 once each in increasing order, the even ones on the
\* frame-as-batch layout with the spatial mask and the odd ones on the
\* location-as-batch layout with the temporal mask, and the layout is
\* frame-as-batch again after every pair.
C10_BlockOrder ==
    (model.built /\ Len(model.blocks) % 2 = 0)
    => (/\ \A k \in 1..Len(trace) :
              trace[k].mask # "final"
              => (/\ trace[k].blk = k - 1
                  /\ k % 2 = 1 => (/\ trace[k].layout = "bf" /\ trace[k].mask = "spatial"
                                   /\ model.blocks[k].hw =
                                        <<config.input_size[1] \div config.patch_size,
                                          config.input_size[2] \div config.patch_size>>)
                  /\ k % 2 = 0 => (/\ trace[k].layout = "bt" /\ trace[k].mask = "temporal"
                                   /\ model.blocks[k].hw = <<config.num_frames, 1>>))
        /\ pc = "loop" => (x.layout = "bf" /\ Len(trace) = i /\ i % 2 = 0)
        /\ pc = "temporal" => Len(trace) = i + 1
        /\ pc \in {"unpatchify", "guidance", "done"}
              => (/\ Len(trace) = Len(model.blocks) + 1
                  /\ trace[Len(trace)].mask = "final"
                  /\ \A k \in 1..Len(model.blocks) : trace[k].mask # "final"))

\* a call on a model of depth 4 returned after two pairs of blocks
C10_Witness ==
    /\ pc = "done" /\ Len(model.blocks) = 4 /\ Len(trace) = 5
    /\ trace[3].blk = 2 /\ trace[4].blk = 3

\* C7: in the dense strategy the weight row of a query whose mask row is all
\* 0 is all zeros (neither NaN nor a distribution), and a row with an
\* allowed key is the row softmax computed.
C7_MaskedRowZero ==
    (attn.pc \in {"weights", "done"} /\ attn.mode = "math" /\ attn.hasMask)
    => \A a \in Tokens(attn.n) :
          IF \A b \in Tokens(attn.n) : attn.mask[a][b] = 0
          THEN \A b \in Tokens(attn.n) : attn.weights[a][b] = ZeroWeight
          ELSE RowIsNaN(a)
               \/ attn.weights[a] =
                    Softmax([b \in Tokens(attn.n) |->
                                AddBias(attn.scores[a][b],
                                        make_attn_bias(attn.mask[a][b], attn.dtype))], FALSE)

\* C9: with dropout_prob = 1.0, train = True and no force_drop_ids every
\* label becomes the unconditional index num_classes and all returned rows
\* are that one table row; with train = False and no force_drop_ids no label
\* is replaced.
C9_LabelDropout ==
    (emb.pc \in {"lookup", "done", "error"} /\ ~emb.forced)
    => (/\ (emb.dropout_prob = RandRes /\ emb.train)
              => (/\ \A j \in DOMAIN emb.labels : emb.labels[j] = emb.num_classes
                  /\ emb.pc # "error"
                  /\ emb.pc = "done" => \A j \in DOMAIN emb.rows : emb.rows[j] = emb.num_classes)
        /\ ~emb.train
              => (/\ emb.labels = emb.given
                  /\ emb.pc # "error"
                  /\ emb.pc = "done" => emb.rows = emb.given))

\* two different labels were embedded with dropout_prob = 1.0 in training
C9_Witness ==
    /\ emb.pc = "done" /\ ~emb.forced /\ emb.train /\ emb.dropout_prob = RandRes
    /\ Len(emb.given) = 2 /\ emb.given[1] # emb.given[2]
    /\ emb.rows[1] = emb.rows[2]

\* C11: in one forward call of a model with at least two blocks the spatial
\* positional table is added exactly once, before any block has run; the
\* temporal table is added exactly once, after the first spatial block and
\* before the first temporal block; no later pair adds either table.
C11_PositionalOnce ==
    (pc \in {"loop", "temporal", "unpatchify", "guidance", "done"} /\ Len(model.blocks) >= 2)
        => /\ x.pos = <<0>>
           /\ x.temp = IF Len(trace) >= 2 THEN <<1>> ELSE <<>>

C11_Witness ==
    /\ pc = "done"
    /\ Len(model.blocks) = 4
    /\ Len(trace) = 5
    /\ x.pos = <<0>>
    /\ x.temp = <<1>>

\* C12: in every conditioning mode (none, class, text) the conditioning
\* vector the final layer receives is the one the spatial blocks of the same
\* call received.
C12_FinalConditioning ==
    \A k \in 1..Len(trace), j \in 1..Len(trace) :
        (trace[k].mask = "final" /\ trace[j].mask = "spatial")
            => trace[k].cond = trace[j].cond

\* C13: with the 'flash' strategy Attention.forward takes the unmasked fast
\* path exactly when the mask is absent or every entry of it is non-zero; a
\* mask with at least one 0 entry is passed to the masked fused path and is
\* never dropped.
C13_FlashFallback ==
    (attn.pc \in {"weights", "done"} /\ attn.mode = "flash")
    => LET hasZero == attn.hasMask /\ \E a \in Tokens(attn.n), b \in Tokens(attn.n) :
                                        attn.mask[a][b] = 0
       IN  /\ attn.path = "flash" <=> ~hasZero
           /\ attn.path = "flash" => attn.passed = <<>>
           /\ hasZero => /\ attn.path = "masked"
                          /\ attn.passed = attn.mask
                          /\ \A a \in Tokens(attn.n) :
                                attn.weights[a] = SdpaWeights(attn.scores[a], RowIsNaN(a),
                                                              TRUE, attn.mask[a])

\* a flash call with a mask of zeros and ones went through the masked path
C13_Witness ==
    /\ attn.pc = "done"
    /\ attn.mode = "flash"
    /\ attn.hasMask
    /\ attn.n = 2
    /\ attn.mask[1][1] = 1
    /\ attn.mask[2][2] = 0
    /\ attn.path = "masked"
    /\ attn.passed = attn.mask

\* C14: for every input size, square or not, whose sides the patch size
\* divides, construction succeeds, the spatial positional table has
\* (H / p) * (W / p) rows and the temporal table has num_frames rows.
C14_TablesFitGrid ==
    (/\ pc # "config"
     /\ config.input_size[1] % config.patch_size = 0
     /\ config.input_size[2] % config.patch_size = 0)
    => /\ pc # "ctor_error"
       /\ model.built
       /\ model.pos_embed
             = (config.input_size[1] \div config.patch_size)
                 * (config.input_size[2] \div config.patch_size)
       /\ model.temp_embed = config.num_frames

\* C15: when the call has num_frames frames, every token row is modulated by
\* the conditioning of its own batch element: row (b, f) of the '(b f)'
\* layout of a spatial block and row (b, t) of the '(b t)' layout of a
\* temporal block both receive the conditioning of batch element b.
C15_OwnConditioning ==
    (pc \in {"loop", "temporal", "unpatchify", "guidance", "done"}
        /\ call.frames = config.num_frames)
    => \A k \in 1..Len(trace) :
          LET B == ForwardBatch(call)
              F == call.frames
              T == NumPatches(config)
          IN  /\ trace[k].mask = "spatial" =>
                    /\ trace[k].layout = "bf"
                    /\ \A b \in 0..(B - 1), f \in 0..(F - 1) : trace[k].src[b * F + f] = b
              /\ trace[k].mask = "temporal" =>
                    /\ trace[k].layout = "bt"
                    /\ \A b \in 0..(B - 1), t \in 0..(T - 1) : trace[k].src[b * T + t] = b

\* a call of two batch elements, two frames and four locations ran a pair
C15_Witness ==
    /\ pc = "done"
    /\ call.batch = 2
    /\ call.frames = 2
    /\ config.num_frames = 2
    /\ NumPatches(config) = 4
    /\ Len(trace) >= 3
    /\ trace[1].src[1] = 0
    /\ trace[1].src[2] = 1
    /\ trace[2].mask = "temporal"
    /\ trace[2].src[5] = 1

\* C16: for an attention_mask of shape (batch, frame, height, width) with the
\* height and width of the video, the spatial mask has batch * frame entries
\* of N x N, N the number of spatial tokens of a frame, and the temporal mask
\* has batch * N entries of frame x frame, for every patch size.
C16_MaskShapes ==
    (pc \in {"embed", "loop", "temporal", "unpatchify", "done"} /\ call.mask # "none")
    => LET B == ForwardBatch(call)
           F == call.frames
           N == NumPatches(config)
           sm == SpatialMask(call, config)
           tm == TemporalMask(call, config)
       IN  /\ sm.has /\ sm.batch = B * F /\ sm.len = N
           /\ tm.has /\ tm.batch = B * N /\ tm.len = F

\* C17: in LabelEmbedder.forward every index looked up is within
\* 0 .. table_size - 1, for every dropout_prob, train flag, force_drop_ids
\* and labels in 0 .. num_classes - 1, also when force_drop_ids marks a label
\* as dropped while dropout_prob is 0.
C17_IndexInTable ==
    /\ emb.pc \in {"lookup", "done", "error"}
          => \A j \in DOMAIN emb.labels : emb.labels[j] \in 0..(emb.table - 1)
    /\ emb.pc # "error"

\* C18: at most one of the label embedder and the text projection is
\* constructed, and the conditioning mode follows the variance-prediction
\* field: every model built in class or text mode has
\* out_channels = 2 * in_channels, and every model with
\* out_channels = in_channels runs timestep-only.
C18_ModeFromVariance ==
    model.built
    => /\ ~(model.y_embedder /\ model.text_embedding_projection)
       /\ (model.y_embedder \/ model.text_embedding_projection)
             => model.out_channels = 2 * model.in_channels
       /\ \A k \in 1..Len(trace) :
             /\ "y" \in trace[k].cond => model.y_embedder
             /\ "text" \in trace[k].cond => model.text_embedding_projection
       /\ model.out_channels = model.in_channels
             => /\ ~model.y_embedder
                /\ ~model.text_embedding_projection
                /\ \A k \in 1..Len(trace) : trace[k].cond = {"t"}

\* a text-conditioned model of doubled channels returned from a call
C18_Witness ==
    /\ pc = "done"
    /\ model.text_embedding_projection
    /\ ~model.y_embedder
    /\ model.out_channels = 2 * model.in_channels
    /\ Len(trace) >= 3
    /\ trace[1].cond = {"t", "text"}

====
